---- MODULE Spec2Model ----
(***************************************************************************)
(* mdbook-rolltables: a preprocessor that rewrites markdown tables whose   *)
(* header's first cell is the text "d" and whose data rows leave the first *)
(* cell empty into dice-roll tables.  The repository holds two variants of *)
(* the program, src/lib.rs ("lib") and src/main.rs ("main"); the model     *)
(* carries the variant as a parameter and follows each variant's code.     *)
(***************************************************************************)
EXTENDS Integers, Sequences, FiniteSets, TLC

(* ------------------------------------------------------------------ *)
(* Bounds of the model                                                 *)
(* ------------------------------------------------------------------ *)
MaxRows == 7
MaxCols == 2
MaxCount == 64

Variants == {"lib", "main"}

(* ------------------------------------------------------------------ *)
(* Tokens (pulldown_cmark::Event)                                      *)
(* ------------------------------------------------------------------ *)
Tok(tag) == [tag |-> tag, text |-> "", al |-> <<>>]
Text(s) == [tag |-> "Text", text |-> s, al |-> <<>>]
Code(s) == [tag |-> "Code", text |-> s, al |-> <<>>]
TableStart(al) == [tag |-> "TableStart", text |-> "", al |-> al]
TableEnd(al) == [tag |-> "TableEnd", text |-> "", al |-> al]
HeadStart == Tok("HeadStart")
HeadEnd == Tok("HeadEnd")
RowStart == Tok("RowStart")
RowEnd == Tok("RowEnd")
CellStart == Tok("CellStart")
CellEnd == Tok("CellEnd")

Min(a, b) == IF a < b THEN a ELSE b

(* ------------------------------------------------------------------ *)
(* format!("{}", n) of a usize: the decimal digits of n                *)
(* ------------------------------------------------------------------ *)
Digit(n) ==
    CASE n = 0 -> "0" [] n = 1 -> "1" [] n = 2 -> "2" [] n = 3 -> "3"
      [] n = 4 -> "4" [] n = 5 -> "5" [] n = 6 -> "6" [] n = 7 -> "7"
      [] n = 8 -> "8" [] n = 9 -> "9"

RECURSIVE DecimalNoZero(_)
DecimalNoZero(n) ==
    IF n = 0 THEN "" ELSE DecimalNoZero(n \div 10) \o Digit(n % 10)

RECURSIVE Decimal(_)
Decimal(n) ==
    IF n < 10 THEN Digit(n) ELSE Decimal(n \div 10) \o Digit(n % 10)

(* ------------------------------------------------------------------ *)
(* get_dice_iterator                                                   *)
(* ------------------------------------------------------------------ *)
\* map_string_to_event / string_to_event_iter!: each string becomes the
\* one-token cell [Text(s)]
map_string_to_event(strs) == [k \in 1..Len(strs) |-> <<Text(strs[k])>>]

\* fault: the two dice swapped in the label
RECURSIVE ZipRepeatSwapped(_, _, _, _)
ZipRepeatSwapped(die, n1, b, sep) ==
    IF n1 > b THEN <<>>
    ELSE <<Decimal(n1) \o sep \o Decimal(die)>> \o ZipRepeatSwapped(die, n1 + 1, b, sep)

\* iter::repeat(die).zip(1..=b) mapped through format!("{}{}{}", n0, sep, n1)
RECURSIVE ZipRepeat(_, _, _, _)
ZipRepeat(die, n1, b, sep) ==
    IF n1 > b THEN <<>>
    ELSE <<Decimal(die) \o sep \o Decimal(n1)>> \o ZipRepeat(die, n1 + 1, b, sep)

\* (1..=a).flat_map(|die| repeat(die).zip(1..=b))
RECURSIVE FlatMapDice(_, _, _, _)
FlatMapDice(die, a, b, sep) ==
    IF die > a THEN <<>>
    ELSE ZipRepeat(die, 1, b, sep) \o FlatMapDice(die + 1, a, b, sep)

combined_dice(a, b, head_sep, sep) ==
    [head   |-> <<Text("d" \o Decimal(a) \o head_sep \o Decimal(b))>>,
     labels |-> map_string_to_event(FlatMapDice(1, a, b, sep)),
     warn   |-> 0]

\* fault: the range counts from 0
RECURSIVE RangeStringsFromZero(_, _)
RangeStringsFromZero(i, count) ==
    IF i > count THEN <<>>
    ELSE <<Decimal(i - 1)>> \o RangeStringsFromZero(i + 1, count)

\* (1..=count).map(|i| format!("{}", i))
RECURSIVE RangeStrings(_, _)
RangeStrings(i, count) ==
    IF i > count THEN <<>> ELSE <<Decimal(i)>> \o RangeStrings(i + 1, count)

CanonicalDice == {4, 6, 8, 10, 12, 20, 100}

\* the condition guarding eprintln!: lib.rs warns when warn_unusual_dice is
\* set, main.rs warns unless allow_unusual_dice is set
WarnsMainPolarityEverywhere(variant, count, flag) ==
    (~flag) /\ count \notin CanonicalDice

Warns(variant, count, flag) ==
    IF variant = "lib"
    THEN flag /\ count \notin CanonicalDice
    ELSE (~flag) /\ count \notin CanonicalDice

single_die(variant, count, flag) ==
    [head   |-> <<Text("d" \o Decimal(count))>>,
     labels |-> map_string_to_event(RangeStrings(1, count)),
     warn   |-> IF Warns(variant, count, flag) THEN 1 ELSE 0]

\* the 3-row arm of lib.rs
three_rows ==
    [head   |-> <<Text("d6")>>,
     labels |-> map_string_to_event(<<"1, 2", "3, 4", "5, 6">>),
     warn   |-> 0]

get_dice_iterator(variant, count, head_sep, sep, flag) ==
    CASE count = 16 -> combined_dice(4, 4, head_sep, sep)
      [] count = 24 -> combined_dice(6, 4, head_sep, sep)
      [] count = 32 -> combined_dice(8, 4, head_sep, sep)
      [] count = 36 -> combined_dice(6, 6, head_sep, sep)
      [] count = 48 -> combined_dice(8, 6, head_sep, sep)
      [] count = 64 -> combined_dice(8, 8, head_sep, sep)
      [] count = 3 /\ variant = "lib" -> three_rows
      [] OTHER -> single_die(variant, count, flag)

(* ------------------------------------------------------------------ *)
(* MarkdownTable::new (the Table Extractor)                            *)
(* ------------------------------------------------------------------ *)
\* Option<T>: None is <<>>, Some(x) is <<x>>
None == <<>>
Some(x) == <<x>>

\* content.push(vec![])
push_row(content) == Append(content, <<>>)

\* content.last_mut().unwrap().push(vec![])
push_cell(content) ==
    [content EXCEPT ![Len(content)] = Append(@, <<>>)]

\* fault: a token reaching a cell that already holds one replaces it
push_event_keep_last(content, ev) ==
    [content EXCEPT ![Len(content)][Len(content[Len(content)])] = <<ev>>]

\* content.last_mut().unwrap().last_mut().unwrap().push(ev)
push_event(content, ev) ==
    [content EXCEPT ![Len(content)][Len(content[Len(content)])] = Append(@, ev)]

\* One turn of the loop of MarkdownTable::new on the token ev, which stands
\* at s[p].  status: "loop" while the loop runs, "break" after table-end,
\* "panic" after an unwrap() of None.
NewStep(st, ev, p) ==
    IF st.status # "loop" THEN st
    ELSE CASE ev.tag \in {"HeadStart", "RowStart"} ->
                  [st EXCEPT !.content = push_row(@)]
           [] ev.tag = "CellStart" ->
                  IF st.content = <<>>
                  THEN [st EXCEPT !.status = "panic"]
                  ELSE [st EXCEPT !.content = push_cell(@)]
           [] ev.tag \in {"HeadEnd", "RowEnd", "CellEnd"} -> st
           [] ev.tag = "TableEnd" ->
                  [st EXCEPT !.status = "break", !.next = p + 1]
           [] OTHER ->
                  IF st.content = <<>> \/ st.content[Len(st.content)] = <<>>
                  THEN [st EXCEPT !.status = "panic"]
                  ELSE [st EXCEPT !.content = push_event(@, ev)]

\* The turns of the loop on s[lo..hi], in order, up to the turn that ends
\* the loop.  The range is halved so that the evaluation nests no deeper than
\* the logarithm of its length.
RECURSIVE NewLoop(_, _, _, _)
NewLoop(st, s, lo, hi) ==
    IF lo > hi THEN st
    ELSE IF lo = hi THEN NewStep(st, s[lo], lo)
    ELSE LET mid == (lo + hi) \div 2
             left == NewLoop(st, s, lo, mid)
         IN  IF left.status # "loop" THEN left ELSE NewLoop(left, s, mid + 1, hi)

\* MarkdownTable::new(alignment, parser): the parser stands after the
\* table-start token, at s[p].  A loop that is still running when the parser
\* has no more tokens panics in parser.next().unwrap().
MarkdownTable_new(alignment, s, p) ==
    LET r == NewLoop([status |-> "loop", content |-> <<>>, next |-> p], s, p, Len(s))
    IN  [ok |-> r.status = "break", next |-> r.next,
         table |-> [alignment |-> alignment, content |-> r.content]]

(* ------------------------------------------------------------------ *)
(* MarkdownTable::events_iter (lib.rs, the eager Reassembler)          *)
(* ------------------------------------------------------------------ *)
cell_events_iter(cell) == <<CellStart>> \o cell \o <<CellEnd>>

\* row.iter().flat_map(cell_events_iter)
RECURSIVE FlatMapCells(_, _)
FlatMapCells(row, j) ==
    IF j > Len(row) THEN <<>>
    ELSE cell_events_iter(row[j]) \o FlatMapCells(row, j + 1)

\* self.rows().iter().flat_map(|row| ...), rows() being content[1..]
RECURSIVE FlatMapRows(_, _)
FlatMapRows(content, i) ==
    IF i > Len(content) THEN <<>>
    ELSE <<RowStart>> \o FlatMapCells(content[i], 1) \o <<RowEnd>>
         \o FlatMapRows(content, i + 1)

events_iter(table) ==
    <<TableStart(table.alignment)>>
    \o <<HeadStart>> \o FlatMapCells(table.content[1], 1) \o <<HeadEnd>>
    \o FlatMapRows(table.content, 2)
    \o <<TableEnd(table.alignment)>>

(* ------------------------------------------------------------------ *)
(* MarkdownTableIterator (main.rs, the cursor Reassembler)             *)
(* ------------------------------------------------------------------ *)
\* IntoIterator::into_iter
into_iter == [row |-> None, cell |-> None, cell_event |-> None, finished |-> FALSE]

\* fault: the head row is closed with the token that closes a data row
close_row_always_row(row) == RowEnd

close_row(row) == IF row = 0 THEN HeadEnd ELSE RowEnd

open_row(row) == IF row = 0 THEN HeadStart ELSE RowStart

\* MarkdownTableIterator::next: the iterator after the call and what the call
\* returns.  Indices are the code's, counted from 0.
Iterator_next(table, it) ==
    IF it.finished THEN [it |-> it, ret |-> None]
    ELSE IF it.row = None
    THEN [it |-> [it EXCEPT !.row = Some(0)],
          ret |-> Some(TableStart(table.alignment))]
    ELSE LET row == it.row[1] IN
    IF ~(row < Len(table.content))
    THEN [it |-> [it EXCEPT !.row = None, !.finished = TRUE],
          ret |-> Some(TableEnd(table.alignment))]
    ELSE IF it.cell = None
    THEN [it |-> [it EXCEPT !.cell = Some(0)], ret |-> Some(open_row(row))]
    ELSE LET cell == it.cell[1] IN
    IF ~(cell < Len(table.content[row + 1]))
    THEN [it |-> [it EXCEPT !.cell = None, !.row = Some(row + 1)],
          ret |-> Some(close_row(row))]
    ELSE IF it.cell_event = None
    THEN [it |-> [it EXCEPT !.cell_event = Some(0)], ret |-> Some(CellStart)]
    ELSE LET cell_event == it.cell_event[1] IN
    IF cell_event < Len(table.content[row + 1][cell + 1])
    THEN [it |-> [it EXCEPT !.cell_event = Some(cell_event + 1)],
          ret |-> Some(table.content[row + 1][cell + 1][cell_event + 1])]
    ELSE [it |-> [it EXCEPT !.cell_event = None, !.cell = Some(cell + 1)],
          ret |-> Some(CellEnd)]

\* cmark(table.into_iter(), ..): up to k calls of next(), stopping once the
\* iterator is finished, and the tokens they returned.  The calls are halved
\* as in NewLoop.
RECURSIVE Drive(_, _, _)
Drive(table, st, k) ==
    IF k = 0 THEN st
    ELSE IF k = 1
    THEN LET r == Iterator_next(table, st.it)
         IN  [it |-> r.it, out |-> st.out \o r.ret]
    ELSE LET half == Drive(table, st, k \div 2)
         IN  IF half.it.finished THEN half ELSE Drive(table, half, k - (k \div 2))

\* every token of the iterator up to its first None, given at least that
\* many calls
Collect(table, calls) ==
    Drive(table, [it |-> into_iter, out |-> <<>>], calls).out

(* ------------------------------------------------------------------ *)
(* The Pattern Detector and the rewrite, inside handle_chapter         *)
(* ------------------------------------------------------------------ *)
\* row[0].is_empty() for every data row, stopping at the first that is not
RECURSIVE AllFirstEmpty(_, _)
AllFirstEmpty(content, i) ==
    IF i > Len(content) THEN "true"
    ELSE IF content[i] = <<>> THEN "panic"
    ELSE IF content[i][1] # <<>> THEN "false"
    ELSE AllFirstEmpty(content, i + 1)

\* table.head()[0] == [Event::Text("d")]
HeadIsD(content) == content[1][1] = <<Text("d")>>

\* the condition of the `if`: "true", "false", or "panic" when an index is
\* out of bounds
Detect(content) ==
    IF content = <<>> \/ content[1] = <<>> THEN "panic"
    ELSE IF ~HeadIsD(content) THEN "false"
    ELSE AllFirstEmpty(content, 2)

\* fault: the zip runs over one row fewer
ZipLenShort(labels, content) == Min(Len(labels), Len(content) - 1) - 1

\* iter.zip(table.rows_mut()): the number of pairs
ZipLen(labels, content) == Min(Len(labels), Len(content) - 1)

\* table.head_mut()[0] = head; for (i, row) in iter.zip(rows_mut()) { row[0] = i }
Rewrite(content, dice) ==
    [i \in 1..Len(content) |->
        IF i = 1 THEN [content[1] EXCEPT ![1] = dice.head]
        ELSE IF i - 1 <= ZipLen(dice.labels, content)
             THEN [content[i] EXCEPT ![1] = dice.labels[i - 1]]
             ELSE content[i]]

(* ------------------------------------------------------------------ *)
(* Configuration (toml::Value) and RollTables::run                     *)
(* ------------------------------------------------------------------ *)
Str(x) == [type |-> "String", s |-> x, b |-> FALSE]
Bool(x) == [type |-> "Boolean", s |-> "", b |-> x]
IntVal == [type |-> "Integer", s |-> "", b |-> FALSE]

\* the option names of each variant
HeadKey(v) == IF v = "lib" THEN "head-separator" ELSE "label-separator"
SepKey(v) == "separator"
FlagKey(v) == IF v = "lib" THEN "warn-unusual-dice" ELSE "allow-unusual-dice"

\* fault: the header separator defaults to the value separator's default
DefaultHeadSeparatorDot(v) == "."

\* None => "".into()  /  .unwrap_or(" d")
DefaultHeadSeparator(v) == IF v = "lib" THEN "" ELSE " d"

\* None => ".".into()  /  .unwrap_or(".")
DefaultSeparator(v) == "."

\* None => false  /  .unwrap_or(false)
DefaultFlag(v) == FALSE

\* lib.rs: Some(_) => Err(..)?, a value of the wrong type fails the run
\* main.rs: as_str()/as_bool() give None, and unwrap_or takes the default
WrongType(v, c, key, type) ==
    v = "lib" /\ key \in DOMAIN c /\ c[key].type # type

GetString(v, c, key, default) ==
    IF key \in DOMAIN c /\ c[key].type = "String" THEN c[key].s ELSE default

GetBool(v, c, key, default) ==
    IF key \in DOMAIN c /\ c[key].type = "Boolean" THEN c[key].b ELSE default

(* ------------------------------------------------------------------ *)
(* Inputs: chapters of one table between two paragraphs of text        *)
(* ------------------------------------------------------------------ *)
Aligns == <<"None", "Left", "Center", "Right">>

\* what the tokenizer emits for one row of cells
RECURSIVE CellsSpan(_, _)
CellsSpan(row, j) ==
    IF j = 0 THEN <<>>
    ELSE CellsSpan(row, j - 1) \o <<CellStart>> \o row[j] \o <<CellEnd>>

RECURSIVE RowsSpan(_, _)
RowsSpan(content, i) ==
    IF i < 2 THEN <<>>
    ELSE RowsSpan(content, i - 1)
         \o <<RowStart>> \o CellsSpan(content[i], Len(content[i])) \o <<RowEnd>>

\* what the tokenizer emits for a table of the given alignment and cells
TableSpan(al, content) ==
    <<TableStart(al), HeadStart>> \o CellsSpan(content[1], Len(content[1]))
    \o <<HeadEnd>> \o RowsSpan(content, Len(content)) \o <<TableEnd(al)>>

\* the first cell of the header row
HeadCells ==
    {<<Text("d")>>, <<Text("x")>>, <<Text("d"), Text("x")>>, <<Code("d")>>, <<>>}

\* the other cells: empty, one token, two tokens
Filler(i, j) ==
    CASE (i + j) % 3 = 0 -> <<>>
      [] (i + j) % 3 = 1 -> <<Text("x")>>
      [] OTHER -> <<Text("d"), Code("y")>>

\* a table of nrows data rows and ncols columns whose header starts with
\* head0 and whose data row `dirty` (0: none) has a non-empty first cell
MakeContent(ncols, nrows, head0, dirty) ==
    [i \in 1..(nrows + 1) |->
        [j \in 1..ncols |->
            IF j = 1
            THEN (IF i = 1 THEN head0
                  ELSE IF i - 1 = dirty THEN <<Text("x")>> ELSE <<>>)
            ELSE Filler(i, j)]]

MakeAlignment(ncols, nrows) ==
    [j \in 1..ncols |-> Aligns[((j + nrows) % 4) + 1]]

\* 16 data rows: the smallest table that rolls two dice
CombinedRows == 16
RowCounts == (0..MaxRows) \cup {CombinedRows}

Pre == <<Text("d")>>
Post == <<Text("q")>>

TablesOfRows(nr) ==
    {TableSpan(MakeAlignment(nc, nr), MakeContent(nc, nr, h, dirty)) :
        nc \in 1..MaxCols, h \in HeadCells, dirty \in {0, 1, nr} \cap (0..nr)}

WellFormedChapters ==
    {Pre \o t \o Post : t \in UNION {TablesOfRows(nr) : nr \in RowCounts}}

\* table spans the tokenizer is assumed never to emit
MalformedSpans ==
    LET al == <<"Left">>
        TS == TableStart(al)
        TE == TableEnd(al)
        D  == Text("d")
        X  == Text("x")
    IN  { <<TS, HeadStart, CellStart, D, CellEnd, HeadEnd>>,
          <<TS, CellStart, D, CellEnd, TE>>,
          <<TS, X, TE>>,
          <<TS, HeadStart, X, HeadEnd, TE>>,
          <<TS, HeadStart, CellStart, D, CellEnd, HeadEnd, CellStart, X, CellEnd, TE>>,
          <<TS, HeadStart, CellStart, D, CellEnd, X, HeadEnd, TE>>,
          <<TS, HeadStart, CellStart, D, CellEnd, HeadEnd, RowEnd, TE>>,
          <<TS, HeadStart, CellEnd, CellStart, D, CellEnd, HeadEnd, TE>>,
          <<TS, TE>> }

MalformedChapters == {Pre \o m \o Post : m \in MalformedSpans}

\* the [preprocessor.rolltables] tables of book.toml
Configs(v) ==
    { <<>>,
      (SepKey(v) :> Str("-")),
      (HeadKey(v) :> Str(":")),
      (FlagKey(v) :> Bool(TRUE)),
      (SepKey(v) :> Str("-")) @@ (HeadKey(v) :> Str(":")) @@ (FlagKey(v) :> Bool(TRUE)),
      (SepKey(v) :> IntVal),
      (HeadKey(v) :> Bool(TRUE)),
      (FlagKey(v) :> Str("yes")),
      ("colour" :> Str("red")) }

Separators == {"", ".", " d", "-"}
Counts == (0..MaxCount) \cup {100, 101}

(* ------------------------------------------------------------------ *)
(* State                                                               *)
(* ------------------------------------------------------------------ *)
VARIABLES
    variant,        \* which program runs: "lib" or "main"
    has_section,    \* book.toml has a [preprocessor.rolltables] table
    cfg,            \* that table
    pc,             \* "run", "loop", "iter", "done", "error", "panic";
                    \* "dice", "diced" for a bare call of get_dice_iterator
    head_separator, \* head_separator / label_separator
    separator,
    unusual_dice,   \* warn_unusual_dice / allow_unusual_dice
    chapter,        \* chapter.content, as tokens
    input,          \* chapter.content when handle_chapter started
    pos,            \* the parser's next token
    buf,            \* the tokens handed to cmark so far
    table,          \* the MarkdownTable of the last table-start
    it,             \* the MarkdownTableIterator over it
    emitted,        \* the tokens the iterator has returned
    calls,          \* the calls of next() on the iterator
    accepted,       \* the detector's verdict in this pass: "none", "yes", "no"
    count,          \* the row count given to get_dice_iterator
    dice,           \* what get_dice_iterator returned
    diag,           \* the diagnostics written to stderr
    pass            \* 1: the first run; 2: a run over the first run's output

vars == <<variant, has_section, cfg, pc, head_separator, separator, unusual_dice,
          chapter, input, pos, buf, table, it, emitted, calls, accepted, count,
          dice, diag, pass>>

NoTable == [alignment |-> <<>>, content |-> <<>>]
NoDice == [head |-> <<>>, labels |-> <<>>, warn |-> 0]

InitRest ==
    /\ pos = 1
    /\ buf = <<>>
    /\ table = NoTable
    /\ it = into_iter
    /\ emitted = <<>>
    /\ calls = 0
    /\ accepted = "none"
    /\ dice = NoDice
    /\ diag = 0
    /\ pass = 1

Init ==
    /\ variant \in Variants
    /\ \/ /\ has_section = TRUE
          /\ cfg \in Configs(variant)
          /\ chapter \in WellFormedChapters
       \/ /\ has_section \in BOOLEAN
          /\ cfg = <<>>
          /\ chapter \in WellFormedChapters \cup MalformedChapters
    /\ input = chapter
    /\ pc = "run"
    /\ head_separator = ""
    /\ separator = ""
    /\ unusual_dice = FALSE
    /\ count = 0
    /\ InitRest

(* ------------------------------------------------------------------ *)
(* Actions                                                             *)
(* ------------------------------------------------------------------ *)
tableVars == <<table, it, emitted, calls, accepted, count, dice, diag>>
cfgVars == <<variant, has_section, cfg>>
setVars == <<head_separator, separator, unusual_dice>>

\* RollTables::run up to the call of handle_chapter
Run ==
    /\ pc = "run"
    /\ IF variant = "lib" /\ ~has_section
       THEN \* get_preprocessor(..).unwrap()
            /\ pc' = "panic"
            /\ UNCHANGED setVars
       ELSE IF \/ WrongType(variant, cfg, HeadKey(variant), "String")
               \/ WrongType(variant, cfg, SepKey(variant), "String")
               \/ WrongType(variant, cfg, FlagKey(variant), "Boolean")
       THEN /\ pc' = "error"
            /\ UNCHANGED setVars
       ELSE /\ head_separator' =
                GetString(variant, cfg, HeadKey(variant), DefaultHeadSeparator(variant))
            /\ separator' =
                GetString(variant, cfg, SepKey(variant), DefaultSeparator(variant))
            /\ unusual_dice' =
                GetBool(variant, cfg, FlagKey(variant), DefaultFlag(variant))
            /\ pc' = "loop"
    /\ UNCHANGED <<cfgVars, chapter, input, pos, buf, tableVars, pass>>

\* handle_chapter, one turn of the loop on a token that starts no table
PassThrough ==
    /\ pc = "loop"
    /\ pos <= Len(chapter)
    /\ chapter[pos].tag # "TableStart"
    /\ buf' = Append(buf, chapter[pos])
    /\ pos' = pos + 1
    /\ UNCHANGED <<cfgVars, setVars, pc, chapter, input, tableVars, pass>>

\* handle_chapter, one turn of the loop on a table-start token: extraction,
\* detection, rewrite and, in lib.rs, reassembly
HandleTable ==
    /\ pc = "loop"
    /\ pos <= Len(chapter)
    /\ chapter[pos].tag = "TableStart"
    /\ LET r == MarkdownTable_new(chapter[pos].al, chapter, pos + 1)
           verdict == Detect(r.table.content)
           n == Len(r.table.content) - 1
           g == get_dice_iterator(variant, n, head_separator, separator, unusual_dice)
           t == IF verdict = "true"
                THEN [r.table EXCEPT !.content = Rewrite(@, g)]
                ELSE r.table
       IN  IF ~r.ok \/ verdict = "panic"
           THEN /\ pc' = "panic"
                /\ UNCHANGED <<pos, buf, tableVars>>
           ELSE /\ pos' = r.next
                /\ table' = t
                /\ accepted' = IF verdict = "true" THEN "yes" ELSE "no"
                /\ IF verdict = "true"
                   THEN count' = n /\ dice' = g /\ diag' = diag + g.warn
                   ELSE UNCHANGED <<count, dice, diag>>
                /\ it' = into_iter
                /\ emitted' = <<>>
                /\ calls' = 0
                /\ IF variant = "lib"
                   THEN buf' = buf \o events_iter(t) /\ pc' = "loop"
                   ELSE buf' = buf /\ pc' = "iter"
    /\ UNCHANGED <<cfgVars, setVars, chapter, input, pass>>

\* main.rs: cmark takes the next token of table.into_iter()
IterNext ==
    /\ pc = "iter"
    /\ LET r == Iterator_next(table, it) IN
       /\ it' = r.it
       /\ calls' = calls + 1
       /\ emitted' = emitted \o r.ret
       /\ buf' = buf \o r.ret
       /\ pc' = IF r.ret = None THEN "loop" ELSE "iter"
    /\ UNCHANGED <<cfgVars, setVars, chapter, input, pos, table, accepted, count,
                   dice, diag, pass>>

\* handle_chapter, after the loop: chapter.content = buf
Finish ==
    /\ pc = "loop"
    /\ pos > Len(chapter)
    /\ chapter' = buf
    /\ pc' = "done"
    /\ UNCHANGED <<cfgVars, setVars, input, pos, buf, tableVars, pass>>

\* the preprocessor runs again, with the same configuration, over its output
RunAgain ==
    /\ pc = "done"
    /\ pass = 1
    /\ pass' = 2
    /\ input' = chapter
    /\ pos' = 1
    /\ buf' = <<>>
    /\ accepted' = "none"
    /\ pc' = "loop"
    /\ UNCHANGED <<cfgVars, setVars, chapter, table, it, emitted, calls, count,
                   dice, diag>>

Next == Run \/ PassThrough \/ HandleTable \/ IterNext \/ Finish \/ RunAgain

Spec == Init /\ [][Next]_vars

(* ------------------------------------------------------------------ *)
(* get_dice_iterator called on its own                                 *)
(* ------------------------------------------------------------------ *)
InitDice ==
    /\ variant \in Variants
    /\ has_section = TRUE
    /\ cfg = <<>>
    /\ chapter = <<>>
    /\ input = <<>>
    /\ pc = "dice"
    /\ head_separator \in Separators
    /\ separator \in Separators
    /\ unusual_dice \in BOOLEAN
    /\ count \in Counts
    /\ InitRest

CallDice ==
    /\ pc = "dice"
    /\ dice' = get_dice_iterator(variant, count, head_separator, separator, unusual_dice)
    /\ diag' = diag + dice'.warn
    /\ pc' = "diced"
    /\ UNCHANGED <<cfgVars, setVars, chapter, input, pos, buf, table, it, emitted,
                   calls, accepted, count, pass>>

NextDice == CallDice

SpecDice == InitDice /\ [][NextDice]_vars

(* ------------------------------------------------------------------ *)
(* The grammar of a table span, as the spec states it                  *)
(* ------------------------------------------------------------------ *)
\* where the chapter's table starts
FirstTable(s) ==
    CHOOSE p \in 1..Len(s) :
        s[p].tag = "TableStart" /\ \A q \in 1..(p - 1) : s[q].tag # "TableStart"

\* table-start, the head row, the data rows, table-end with the alignment
\* of table-start; cells only in rows, content only in cells.
\* st: "start", "head", "headcell", "body", "row", "rowcell", "end", "bad"
StrictStep(st, ev, al) ==
    LET tag == ev.tag IN
    CASE st = "start" -> IF tag = "HeadStart" THEN "head" ELSE "bad"
      [] st = "head" ->
             IF tag = "CellStart" THEN "headcell"
             ELSE IF tag = "HeadEnd" THEN "body" ELSE "bad"
      [] st = "row" ->
             IF tag = "CellStart" THEN "rowcell"
             ELSE IF tag = "RowEnd" THEN "body" ELSE "bad"
      [] st = "body" ->
             IF tag = "RowStart" THEN "row"
             ELSE IF tag = "TableEnd" /\ ev.al = al THEN "end" ELSE "bad"
      [] st = "headcell" ->
             IF tag = "CellEnd" THEN "head"
             ELSE IF tag \in {"Text", "Code"} THEN "headcell" ELSE "bad"
      [] st = "rowcell" ->
             IF tag = "CellEnd" THEN "row"
             ELSE IF tag \in {"Text", "Code"} THEN "rowcell" ELSE "bad"
      [] OTHER -> st

RECURSIVE StrictScan(_, _, _, _, _)
StrictScan(st, s, lo, hi, al) ==
    IF lo > hi THEN st
    ELSE IF lo = hi THEN StrictStep(st, s[lo], al)
    ELSE LET mid == (lo + hi) \div 2
             left == StrictScan(st, s, lo, mid, al)
         IN  IF left \in {"end", "bad"} THEN left
             ELSE StrictScan(left, s, mid + 1, hi, al)

WellFormed(s) ==
    LET p == FirstTable(s) IN StrictScan("start", s, p + 1, Len(s), s[p].al) = "end"

\* the malformations the spec lists: a cell-start or content token while no
\* row is open, a content token while no cell is open, a row-end or cell-end
\* with no open row or cell, the stream ending before table-end.
\* v: "open" while none was met, "fault", "end" at table-end
ListedStep(st, ev) ==
    LET tag == ev.tag IN
    IF st.v # "open" THEN st
    ELSE CASE tag \in {"HeadStart", "RowStart"} -> [st EXCEPT !.row = TRUE, !.cell = FALSE]
           [] tag = "CellStart" ->
                  IF st.row THEN [st EXCEPT !.cell = TRUE] ELSE [st EXCEPT !.v = "fault"]
           [] tag = "CellEnd" ->
                  IF st.cell THEN [st EXCEPT !.cell = FALSE] ELSE [st EXCEPT !.v = "fault"]
           [] tag \in {"HeadEnd", "RowEnd"} ->
                  IF st.row THEN [st EXCEPT !.row = FALSE, !.cell = FALSE]
                  ELSE [st EXCEPT !.v = "fault"]
           [] tag = "TableEnd" -> [st EXCEPT !.v = "end"]
           [] OTHER ->
                  IF st.row /\ st.cell THEN st ELSE [st EXCEPT !.v = "fault"]

RECURSIVE ListedScan(_, _, _, _)
ListedScan(st, s, lo, hi) ==
    IF lo > hi THEN st
    ELSE IF lo = hi THEN ListedStep(st, s[lo])
    ELSE LET mid == (lo + hi) \div 2
             left == ListedScan(st, s, lo, mid)
         IN  IF left.v # "open" THEN left ELSE ListedScan(left, s, mid + 1, hi)

Malformed(s) ==
    ListedScan([v |-> "open", row |-> FALSE, cell |-> FALSE], s,
               FirstTable(s) + 1, Len(s)).v # "end"

\* the detection rule in the spec's words, negated
RejectedByRule(c) ==
    c[1][1] # <<Text("d")>> \/ \E i \in 2..Len(c) : c[i][1] # <<>>

\* the table of the chapter handle_chapter started on
InputTable ==
    LET p == FirstTable(input) IN MarkdownTable_new(input[p].al, input, p + 1)

Reassemble(t) ==
    IF variant = "lib" THEN events_iter(t) ELSE Collect(t, Len(input))

CombinedCounts == {16, 24, 32, 36, 48, 64}

PairOf(n) ==
    CASE n = 16 -> <<4, 4>> [] n = 24 -> <<6, 4>> [] n = 32 -> <<8, 4>>
      [] n = 36 -> <<6, 6>> [] n = 48 -> <<8, 6>> [] n = 64 -> <<8, 8>>

\* the first column of the rewritten table, header excluded
FirstColumn == [i \in 1..(Len(table.content) - 1) |-> table.content[i + 1][1]]

Cells(strs) == [k \in 1..Len(strs) |-> <<Text(strs[k])>>]

Labels44 ==
    Cells(<<"1.1", "1.2", "1.3", "1.4", "2.1", "2.2", "2.3", "2.4",
            "3.1", "3.2", "3.3", "3.4", "4.1", "4.2", "4.3", "4.4">>)

Labels6 == Cells(<<"1", "2", "3", "4", "5", "6">>)

NoSeparatorOption ==
    HeadKey(variant) \notin DOMAIN cfg /\ SepKey(variant) \notin DOMAIN cfg

(* ------------------------------------------------------------------ *)
(* C1                                                                  *)
(* ------------------------------------------------------------------ *)
\* C1: for every well-formed table span, MarkdownTable::new followed by
\* events_iter (lib.rs) or into_iter (main.rs) gives back the span token for
\* token, whatever the detector says; and a chapter whose table has a header
\* cell 0 other than the single text "d", or a data row whose cell 0 is not
\* empty, leaves handle_chapter identical to its input.
C1_RoundTrip ==
    (pc = "done" /\ WellFormed(input)) =>
        LET p == FirstTable(input)
            r == InputTable
        IN  /\ r.ok
            /\ Reassemble(r.table) = SubSeq(input, p, r.next - 1)
            /\ RejectedByRule(r.table.content) => chapter = input

C1_Witness ==
    /\ pc = "done" /\ pass = 1 /\ variant = "main"
    /\ WellFormed(input)
    /\ Len(table.content) = 4
    /\ Len(table.content[1]) = 2
    /\ table.content[1][1] = <<Text("d")>>
    /\ table.content[2][1] = <<>>
    /\ table.content[4][1] # <<>>
    /\ chapter = input

(* ------------------------------------------------------------------ *)
(* C2                                                                  *)
(* ------------------------------------------------------------------ *)
\* C2: a table the detector's rule accepts, of N data rows, leaves
\* handle_chapter as the input table with header cell 0 holding the
\* generator's header label and data row i's cell 0 the generator's i-th
\* label, no data row left empty; alignment, rows, cells per row and every
\* other cell are unchanged.
C2_Rewrite ==
    (pc = "done" /\ WellFormed(input) /\ ~RejectedByRule(InputTable.table.content)) =>
        LET p == FirstTable(input)
            r == InputTable
            c0 == r.table.content
            n == Len(c0) - 1
            g == get_dice_iterator(variant, n, head_separator, separator, unusual_dice)
            expected ==
                [i \in 1..Len(c0) |->
                    [j \in 1..Len(c0[i]) |->
                        IF j > 1 THEN c0[i][j]
                        ELSE IF i = 1 THEN g.head ELSE g.labels[i - 1]]]
        IN  /\ accepted = "yes"
            /\ Len(g.labels) = n
            /\ \A i \in 2..Len(c0) : expected[i][1] # <<>>
            /\ table = [alignment |-> input[p].al, content |-> expected]
            /\ chapter = SubSeq(input, 1, p - 1)
                         \o TableSpan(input[p].al, expected)
                         \o SubSeq(input, r.next, Len(input))

C2_Witness ==
    /\ pc = "done" /\ pass = 1 /\ accepted = "yes"
    /\ count = 16 /\ separator = "-"
    /\ Len(table.content[1]) = 2
    /\ table.content[17][1] = <<Text("4-4")>>
    /\ table.content[17][2] = Filler(17, 2)

(* ------------------------------------------------------------------ *)
(* C3                                                                  *)
(* ------------------------------------------------------------------ *)
SingleDieResult(n) ==
    /\ dice.head = <<Text("d" \o Decimal(n))>>
    /\ Len(dice.labels) = n
    /\ \A k \in 1..n : dice.labels[k] = <<Text(Decimal(k))>>

C4_CombinedDice ==
    (pc = "diced" /\ count \in CombinedCounts) =>
        LET a == PairOf(count)[1]
            b == PairOf(count)[2]
        IN  /\ a * b = count
            /\ dice.head = <<Text("d" \o Decimal(a) \o head_separator \o Decimal(b))>>
            /\ Len(dice.labels) = count
            /\ \A n0 \in 1..a : \A n1 \in 1..b :
                   dice.labels[(n0 - 1) * b + n1] =
                       <<Text(Decimal(n0) \o separator \o Decimal(n1))>>

C4_Witness ==
    /\ pc = "diced" /\ count = 24
    /\ head_separator = " d" /\ separator = "-"
    /\ dice.head = <<Text("d6 d4")>>
    /\ dice.labels[5] = <<Text("2-1")>>
    /\ dice.labels[24] = <<Text("6-4")>>

(* ------------------------------------------------------------------ *)
(* C5                                                                  *)
(* ------------------------------------------------------------------ *)
RewrittenByDefault ==
    pc = "done" /\ pass = 1 /\ accepted = "yes" /\ NoSeparatorOption

\* C5 as stated: with no separator option set, 16 data rows get the header
\* "d4.4" and the labels "1.1" .. "4.4", 6 data rows "d6" and "1" .. "6".
C5_Original ==
    RewrittenByDefault =>
        /\ count = 16 => table.content[1][1] = <<Text("d4.4")>> /\ FirstColumn = Labels44
        /\ count = 6 => table.content[1][1] = <<Text("d6")>> /\ FirstColumn = Labels6

\* C5, amended: with no separator option set, 16 data rows get the header
\* "d44" in lib.rs and "d4 d4" in main.rs, and the labels "1.1" .. "4.4";
\* 6 data rows get "d6" and "1" .. "6".
C5_Defaults ==
    RewrittenByDefault =>
        /\ count = 16 =>
              /\ table.content[1][1] =
                     <<Text(IF variant = "lib" THEN "d44" ELSE "d4 d4")>>
              /\ FirstColumn = Labels44
        /\ count = 6 => table.content[1][1] = <<Text("d6")>> /\ FirstColumn = Labels6

C5_Witness ==
    /\ RewrittenByDefault /\ variant = "lib" /\ cfg = <<>>
    /\ count = 16
    /\ table.content[1][1] = <<Text("d44")>>
    /\ table.content[6][1] = <<Text("2.1")>>

(* ------------------------------------------------------------------ *)
(* C6                                                                  *)
(* ------------------------------------------------------------------ *)
\* C6: after a pass over an accepted table the header cell 0 is no longer
\* the single text "d" (for 0 rows too); a second pass over the output of
\* the first rejects the table and leaves the chapter as the first pass did;
\* a rejected table is unchanged by either pass.
C6_Idempotent ==
    /\ (pc = "done" /\ pass = 1 /\ accepted = "yes") =>
           table.content[1][1] # <<Text("d")>>
    /\ (pc = "done" /\ pass = 1 /\ accepted = "no" /\ WellFormed(input)) =>
           chapter = input
    /\ (pass = 2 /\ pc \in {"iter", "done"}) => accepted = "no"
    /\ (pass = 2 /\ pc = "done") => chapter = input

C6_Witness ==
    /\ pass = 2 /\ pc = "done"
    /\ count = 0
    /\ dice.head = <<Text("d0")>>
    /\ chapter = input
    /\ \E p \in 1..Len(chapter) : chapter[p] = Text("d0")

(* ------------------------------------------------------------------ *)
(* C7                                                                  *)
(* ------------------------------------------------------------------ *)
\* C7 as stated: the diagnostic is written exactly once when the flag is
\* true and N is a single die outside 4, 6, 8, 10, 12, 20, 100, and never
\* otherwise.
C7_Original ==
    pc = "diced" =>
        diag = IF unusual_dice /\ count \notin CombinedCounts
                  /\ count \notin CanonicalDice
               THEN 1 ELSE 0

\* C7, amended: in lib.rs the diagnostic is written exactly once when
\* warn-unusual-dice is true and N is none of 16, 24, 32, 36, 48, 64, not 3
\* and none of 4, 6, 8, 10, 12, 20, 100, and never otherwise; in main.rs the
\* flag is allow-unusual-dice and the diagnostic is written exactly once when
\* it is false (its default) and N is none of 16, 24, 32, 36, 48, 64 and
\* none of 4, 6, 8, 10, 12, 20, 100, and never otherwise.  The labels are the
\* same whichever value the flag has.
C7_Diagnostic ==
    pc = "diced" =>
        LET unusual == count \notin CombinedCounts /\ count \notin CanonicalDice
            other == get_dice_iterator(variant, count, head_separator, separator,
                                       ~unusual_dice)
        IN  /\ diag = IF variant = "lib"
                      THEN (IF unusual_dice /\ unusual /\ count # 3 THEN 1 ELSE 0)
                      ELSE (IF ~unusual_dice /\ unusual THEN 1 ELSE 0)
            /\ other.head = dice.head
            /\ other.labels = dice.labels

C7_Witness ==
    /\ pc = "diced" /\ variant = "lib" /\ unusual_dice /\ count = 7
    /\ diag = 1
    /\ dice.head = <<Text("d7")>>
    /\ Len(dice.labels) = 7

(* ------------------------------------------------------------------ *)
(* C8                                                                  *)
(* ------------------------------------------------------------------ *)
InvalidConfig ==
    \E key \in DOMAIN cfg :
        \/ key \notin {HeadKey(variant), SepKey(variant), FlagKey(variant)}
        \/ key \in {HeadKey(variant), SepKey(variant)} /\ cfg[key].type # "String"
        \/ key = FlagKey(variant) /\ cfg[key].type # "Boolean"

\* C8: a recognized option of the wrong type, or an unrecognized option,
\* makes run return an error before any chapter is read or modified.
C8_Validation ==
    (has_section /\ InvalidConfig /\ pc # "run") => pc = "error"

C10_Iterator ==
    (variant = "main" /\ accepted # "none") =>
        LET full == TableSpan(table.alignment, table.content) IN
        /\ Len(emitted) <= Len(full)
        /\ emitted = SubSeq(full, 1, Len(emitted))
        /\ ~it.finished =>
               /\ pc = "iter"
               /\ calls = Len(emitted)
               /\ Len(emitted) < Len(full)
               /\ Iterator_next(table, it).ret # None
        /\ it.finished =>
               /\ emitted = full
               /\ emitted = events_iter(table)
               /\ calls \in {Len(full), Len(full) + 1}
               /\ Iterator_next(table, it) = [it |-> it, ret |-> None]
               /\ pc # "iter" => calls = Len(full) + 1

C10_Witness ==
    /\ variant = "main" /\ pc = "loop" /\ it.finished
    /\ accepted = "yes"
    /\ Len(table.content) = 4
    /\ Len(table.content[1]) = 2
    /\ table.content[4][2] = <<>>
    /\ calls = Len(emitted) + 1

====
